---- MODULE Spec2Model ----
(***************************************************************************)
(* A model of the downloader's format catalog core (src/src/main.rs):      *)
(* FileSize::new and its ordering, Resolution::try_new, FileEncoding::from, *)
(* FileFormat::try_new, FileDetails::deserialize and the best-format        *)
(* selection loop of get_file_formats.                                      *)
(*                                                                         *)
(* Numbers.  An f64 or f32 value is a record [m, e] standing for m * 2^e    *)
(* (m >= 0).  Every f64 of the model has m < 2^31, far below the 53 bits of *)
(* an f64 mantissa, so f64 arithmetic is exact here; an f32 keeps 24 bits   *)
(* and CastF32 rounds to nearest, ties to even, as the hardware does.       *)
(* FileSize.size is kept in hundredths: size = h stands for the f32 nearest *)
(* to h / 100, which is what `ceil(..) / 100.0` yields for an integer       *)
(* h < 2^24, and h |-> f32(h/100) is strictly increasing in that range.     *)
(***************************************************************************)
EXTENDS Integers, Sequences, FiniteSets, TLC

VARIABLES
    pc,              \* position of the running specification
    size_in_bytes,   \* FileSize::new: three byte counts (f64)
    sizes,           \* the three FileSize values built from them
    ordering,        \* partial_cmp of every pair of sizes
    dims,            \* Resolution::try_new: <<width, height>>
    resolution,      \* its Result
    format,          \* one JSON element of `formats`
    duration,        \* the asset's duration handed to FileFormat::try_new
    raw_file_format, \* Result of serde_json::from_value::<RawFileFormat>
    file_format,     \* Result of FileFormat::try_new
    payload,         \* the JSON payload handed to FileDetails::deserialize
    file_details,    \* its Result
    best_formats     \* BestFormats

vars == <<pc, size_in_bytes, sizes, ordering, dims, resolution, format, duration,
          raw_file_format, file_format, payload, file_details, best_formats>>

Idle == [idle |-> TRUE]

(***************************************************************************)
(* Option and Result                                                       *)
(***************************************************************************)
None == [some |-> FALSE]
Some(v) == [some |-> TRUE, val |-> v]
Ok(v) == [ok |-> TRUE, val |-> v]
Err(e) == [ok |-> FALSE, err |-> e]

InvalidResolution(w, h) == [kind |-> "InvalidResolution", width |-> w, height |-> h]
MissingField(name) == [kind |-> "MissingField", field |-> name]

(***************************************************************************)
(* Floating point                                                          *)
(***************************************************************************)
F(m, e) == [m |-> m, e |-> e]

\* an f32 mantissa holds 24 bits
F32Limit == 2 ^ 24

\* n, which needs more than 24 bits, shifted right by s bits and rounded to
\* nearest, ties to even.
RoundShift(n, s) ==
    LET q == n \div (2 ^ s)
        r == n % (2 ^ s)
        half == 2 ^ (s - 1)
    IN  IF r > half \/ (r = half /\ q % 2 = 1) THEN q + 1 ELSE q

\* `x as f32`, and the rounding of an f32 operation's exact result.
CastF32(x) ==
    IF x.m < F32Limit
    THEN x
    ELSE LET s == CHOOSE k \in 1..8 :
                      /\ x.m \div (2 ^ k) < F32Limit
                      /\ x.m \div (2 ^ (k - 1)) >= F32Limit
         IN  F(RoundShift(x.m, s), x.e + s)

\* x / 1024 (exact in f64 and in f32: a power of two)
DivKilo(x) == F(x.m, x.e - 10)

\* x < 1
LessThanOne(x) ==
    IF x.e >= 0 THEN x.m = 0
    ELSE IF -x.e >= 31 THEN TRUE
    ELSE x.m < 2 ^ (-x.e)

\* x.ceil() for an f32 x, as an integer
Ceil(x) ==
    IF x.e >= 0 THEN x.m * (2 ^ x.e)
    ELSE IF -x.e >= 31 THEN (IF x.m = 0 THEN 0 ELSE 1)
    ELSE (x.m + (2 ^ (-x.e)) - 1) \div (2 ^ (-x.e))

\* a * b in f64 (exact within the model's range)
MulF64(a, b) == F(a.m * b.m, a.e + b.e)

(***************************************************************************)
(* FileSize                                                                *)
(***************************************************************************)
\* (value * 100.0).ceil() / 100.0 on an f32; the result is in hundredths.
round_down_to_2_decimal_places(value) ==
    Ceil(CastF32(F(value.m * 100, value.e)))

FileSizeNew(bytes) ==
    LET size_in_kilobytes == CastF32(DivKilo(bytes))
        size_in_megabytes == DivKilo(size_in_kilobytes)
        size_in_gigabytes == DivKilo(size_in_megabytes)
    IN  IF LessThanOne(size_in_kilobytes)
        THEN [size |-> round_down_to_2_decimal_places(CastF32(bytes)), unit |-> "Bytes"]
        ELSE IF LessThanOne(size_in_megabytes)
        THEN [size |-> round_down_to_2_decimal_places(size_in_kilobytes),
              unit |-> "Kilobytes"]
        ELSE IF LessThanOne(size_in_gigabytes)
        THEN [size |-> round_down_to_2_decimal_places(size_in_megabytes),
              unit |-> "Megabytes"]
        ELSE [size |-> round_down_to_2_decimal_places(size_in_gigabytes),
              unit |-> "Gigabytes"]

\* #[derive(PartialOrd)] on FileSizeUnit: the order of declaration
FileSizeUnit == <<"Bytes", "Kilobytes", "Megabytes", "Gigabytes">>

UnitRank(unit) == CHOOSE i \in 1..Len(FileSizeUnit) : FileSizeUnit[i] = unit

Cmp(a, b) == IF a < b THEN "Less" ELSE IF a > b THEN "Greater" ELSE "Equal"

\* Mutant: the units are ignored and the magnitudes alone are compared.
FileSizePartialCmpMagnitudeOnly(self, other) == Cmp(self.size, other.size)

FileSizePartialCmp(self, other) ==
    IF self.unit = other.unit
    THEN Cmp(self.size, other.size)
    ELSE Cmp(UnitRank(self.unit), UnitRank(other.unit))

\* self > other
FileSizeGt(self, other) == FileSizePartialCmp(self, other) = "Greater"

(***************************************************************************)
(* Specification SpecFileSize: FileSize::new on three byte counts, then    *)
(* partial_cmp on every pair.                                              *)
(***************************************************************************)
Window == 1

Boundaries == {0, 2 ^ 10, 2 ^ 20}

WindowMantissas ==
    {k \in UNION {(b - Window)..(b + Window) : b \in Boundaries} : k >= 0}

\* 10 x 800 x 125; a count whose kilobyte value rounds up to 1023.99; a count
\* that the f32 cast rounds up to 2^30
ExtraByteCounts == {1000000, 1048565, (2 ^ 30) - 1}

ByteCounts ==
    {F(k, s) : k \in WindowMantissas, s \in {-10, 0, 10}}
        \cup {F(k, 0) : k \in ExtraByteCounts}

InitFileSize ==
    /\ pc = "bytes"
    /\ size_in_bytes \in [1..3 -> ByteCounts]
    /\ sizes = Idle /\ ordering = Idle
    /\ dims = Idle /\ resolution = Idle
    /\ format = Idle /\ duration = Idle /\ raw_file_format = Idle /\ file_format = Idle
    /\ payload = Idle /\ file_details = Idle /\ best_formats = Idle

ScaleSizes ==
    /\ pc = "bytes"
    /\ sizes' = [i \in 1..3 |-> FileSizeNew(size_in_bytes[i])]
    /\ pc' = "sized"
    /\ UNCHANGED <<size_in_bytes, ordering, dims, resolution, format, duration,
                   raw_file_format, file_format, payload, file_details, best_formats>>

CompareSizes ==
    /\ pc = "sized"
    /\ ordering' = [i \in 1..3 |-> [j \in 1..3 |-> FileSizePartialCmp(sizes[i], sizes[j])]]
    /\ pc' = "compared"
    /\ UNCHANGED <<size_in_bytes, sizes, dims, resolution, format, duration,
                   raw_file_format, file_format, payload, file_details, best_formats>>

NextFileSize == ScaleSizes \/ CompareSizes

SpecFileSize == InitFileSize /\ [][NextFileSize]_vars

\* 1024.00 in hundredths: the bound of the magnitude invariant
MagnitudeLimit == 1024 * 100

\* C5 (as claimed): for every byte count b >= 0 the magnitude FileSize::new
\* produces is in [0, 1024) unless the unit is Gigabytes, also after the
\* round-up to 2 decimals.
C5_MagnitudeBelow1024 ==
    pc # "bytes" =>
        \A i \in 1..3 :
            sizes[i].unit # "Gigabytes" =>
                (sizes[i].size >= 0 /\ sizes[i].size < MagnitudeLimit)

\* C6: partial_cmp is unit-bucket-first (different units: the order of the
\* units whatever the magnitudes; equal units: the order of the magnitudes)
\* and is a total order: every pair comparable, antisymmetric, transitive.
C6_UnitBucketFirstTotalOrder ==
    pc = "compared" =>
        \A i, j \in 1..3 :
            /\ ordering[i][j] \in {"Less", "Equal", "Greater"}
            /\ sizes[i].unit # sizes[j].unit =>
                   ordering[i][j] =
                       (IF UnitRank(sizes[i].unit) < UnitRank(sizes[j].unit)
                        THEN "Less" ELSE "Greater")
            /\ sizes[i].unit = sizes[j].unit =>
                   /\ (ordering[i][j] = "Less") = (sizes[i].size < sizes[j].size)
                   /\ (ordering[i][j] = "Greater") = (sizes[i].size > sizes[j].size)
            /\ (ordering[i][j] = "Less") = (ordering[j][i] = "Greater")
            /\ (ordering[i][j] = "Equal") = (sizes[i] = sizes[j])
            /\ \A k \in 1..3 :
                   (ordering[i][j] # "Greater" /\ ordering[j][k] # "Greater")
                       => ordering[i][k] # "Greater"

\* 1023.99KB against 1.00MB has been compared, and came out Less.
C6_Witness ==
    /\ pc = "compared"
    /\ \E i, j \in 1..3 :
           /\ sizes[i] = [size |-> 102399, unit |-> "Kilobytes"]
           /\ sizes[j] = [size |-> 100, unit |-> "Megabytes"]
           /\ ordering[i][j] = "Less"

(***************************************************************************)
(* Resolution                                                              *)
(***************************************************************************)
\* the match arms of Resolution::try_new, first arm first
Tiers == <<4320, 2160, 1440, 1080, 720, 480, 360, 240, 144>>

TierName(t) == "P" \o ToString(t)

\* Mutant: only the width is tested.
ResolutionTryNewWidthOnly(w, h) ==
    IF \E i \in 1..Len(Tiers) : w = Tiers[i]
    THEN Ok(TierName(Tiers[CHOOSE i \in 1..Len(Tiers) :
                               /\ w = Tiers[i]
                               /\ \A j \in 1..(i - 1) : w # Tiers[j]]))
    ELSE Err(InvalidResolution(w, h))

ResolutionTryNew(w, h) ==
    IF \E i \in 1..Len(Tiers) : w = Tiers[i] \/ h = Tiers[i]
    THEN Ok(TierName(Tiers[CHOOSE i \in 1..Len(Tiers) :
                               /\ (w = Tiers[i] \/ h = Tiers[i])
                               /\ \A j \in 1..(i - 1) : w # Tiers[j] /\ h # Tiers[j]]))
    ELSE Err(InvalidResolution(w, h))

(***************************************************************************)
(* Specification SpecResolution: Resolution::try_new on one pair.          *)
(***************************************************************************)
\* u16 values: the nine tiers, and values that are no tier
Dimensions ==
    {Tiers[i] : i \in 1..Len(Tiers)} \cup {0, 1, 7, 9, 143, 145, 1280, 1920, 3840, 65535}

InitResolution ==
    /\ pc = "dims"
    /\ dims \in Dimensions \X Dimensions
    /\ resolution = Idle
    /\ size_in_bytes = Idle /\ sizes = Idle /\ ordering = Idle
    /\ format = Idle /\ duration = Idle /\ raw_file_format = Idle /\ file_format = Idle
    /\ payload = Idle /\ file_details = Idle /\ best_formats = Idle

Classify ==
    /\ pc = "dims"
    /\ resolution' = ResolutionTryNew(dims[1], dims[2])
    /\ pc' = "classified"
    /\ UNCHANGED <<size_in_bytes, sizes, ordering, dims, format, duration,
                   raw_file_format, file_format, payload, file_details, best_formats>>

NextResolution == Classify

SpecResolution == InitResolution /\ [][NextResolution]_vars

TierValues == {4320, 2160, 1440, 1080, 720, 480, 360, 240, 144}

\* C7: try_new returns the highest tier that the width or the height equals,
\* and fails with InvalidResolution(width, height) exactly when neither
\* dimension is one of the nine values.
C7_HighestTierOnEitherAxis ==
    pc = "classified" =>
        LET w == dims[1]
            h == dims[2]
            hits == {t \in TierValues : w = t \/ h = t}
        IN  /\ hits # {} =>
                   \E t \in hits :
                       /\ \A u \in hits : u <= t
                       /\ resolution = Ok("P" \o ToString(t))
            /\ hits = {} => resolution = Err(InvalidResolution(w, h))
            /\ (w = 1080 /\ h = 1) => resolution = Ok("P1080")
            /\ (w = 144 /\ h = 4320) => resolution = Ok("P4320")
            /\ (w = 7 /\ h = 9) => resolution = Err(InvalidResolution(7, 9))

\* (144, 4320) has been classified: the height carries the higher tier.
C7_Witness ==
    /\ pc = "classified"
    /\ dims = <<144, 4320>>
    /\ resolution = Ok("P4320")

(***************************************************************************)
(* JSON values (serde_json::Value): a field of an object is absent, null,  *)
(* a string (s) or a number (n); an array field is absent or holds the     *)
(* sequence a.  A number n is an integer literal when n.e = 0.             *)
(***************************************************************************)
JAbsent == [t |-> "absent", s |-> "", n |-> F(0, 0)]
JNull == [t |-> "null", s |-> "", n |-> F(0, 0)]
JStr(v) == [t |-> "str", s |-> v, n |-> F(0, 0)]
JNum(x) == [t |-> "num", s |-> "", n |-> x]
JArr(a) == [t |-> "arr", a |-> a]
JNoArr == [t |-> "absent", a |-> <<>>]

Custom(msg) == [kind |-> "Custom", msg |-> msg]

\* Mutant: an omitted codec is taken for the absence marker.
default_codec_none == "none"

default_codec == "unknown"

U16Max == (2 ^ 16) - 1

\* String: the field must be there and be a string
DeString(j) == IF j.t = "str" THEN Ok(j.s) ELSE Err("invalid")

\* #[serde(default = "default_codec")] String
DeCodec(j) ==
    IF j.t = "absent" THEN Ok(default_codec)
    ELSE IF j.t = "str" THEN Ok(j.s) ELSE Err("invalid")

\* Option<f64>
DeOptF64(j) ==
    IF j.t \in {"absent", "null"} THEN Ok(None)
    ELSE IF j.t = "num" THEN Ok(Some(j.n)) ELSE Err("invalid")

\* Option<u16>
DeOptU16(j) ==
    IF j.t \in {"absent", "null"} THEN Ok(None)
    ELSE IF j.t = "num" /\ j.n.e = 0 /\ j.n.m <= U16Max THEN Ok(Some(j.n.m))
    ELSE Err("invalid")

\* serde_json::from_value::<RawFileFormat>(format.clone()); the error stands
\* for serde's message, of which only the existence matters here.
FromValue(j) ==
    LET format_id == DeString(j.format_id)
        ext == DeString(j.ext)
        filesize == DeOptF64(j.filesize)
        acodec == DeCodec(j.acodec)
        vcodec == DeCodec(j.vcodec)
        height == DeOptU16(j.height)
        width == DeOptU16(j.width)
        tbr == DeOptF64(j.tbr)
    IN  IF /\ format_id.ok /\ ext.ok /\ filesize.ok /\ acodec.ok
           /\ vcodec.ok /\ height.ok /\ width.ok /\ tbr.ok
        THEN Ok([format_id |-> format_id.val, ext |-> ext.val,
                 filesize |-> filesize.val, acodec |-> acodec.val,
                 vcodec |-> vcodec.val, height |-> height.val,
                 width |-> width.val, tbr |-> tbr.val])
        ELSE Err("invalid RawFileFormat")

(***************************************************************************)
(* FileEncoding and FileFormat                                             *)
(***************************************************************************)
\* Mutant: the Image arm is tried before the VideoOnly arm.
FileEncodingFromImageFirst(value) ==
    LET both == value.width.some /\ value.height.some
        neither == ~value.width.some /\ ~value.height.some
    IN  IF both /\ value.acodec # "none" /\ value.vcodec # "none" THEN "VideoAndAudio"
        ELSE IF value.acodec = "none" /\ both /\ value.vcodec # "none" THEN "Image"
        ELSE IF value.vcodec = "none" /\ neither /\ value.acodec # "none" THEN "AudioOnly"
        ELSE "Unknown"

\* the match arms of From<RawFileFormat> for FileEncoding, first arm first
FileEncodingFrom(value) ==
    LET both == value.width.some /\ value.height.some
        neither == ~value.width.some /\ ~value.height.some
    IN  IF both /\ value.acodec # "none" /\ value.vcodec # "none" THEN "VideoAndAudio"
        ELSE IF value.acodec = "none" /\ both /\ value.vcodec # "none" THEN "VideoOnly"
        ELSE IF value.vcodec = "none" /\ neither /\ value.acodec # "none" THEN "AudioOnly"
        ELSE IF value.acodec = "none" /\ both /\ value.vcodec # "none" THEN "Image"
        ELSE "Unknown"

\* Mutant: the bitrate is taken for bytes per second.
DerivedFileSizeNoFactor(dur, tbr) == MulF64(dur, tbr)

\* duration * tbr * 125f64
DerivedFileSize(dur, tbr) == MulF64(MulF64(dur, tbr), F(125, 0))

FileFormatTryNew(raw, dur) ==
    LET res == IF raw.width.some /\ raw.height.some
               THEN ResolutionTryNew(raw.width.val, raw.height.val)
               ELSE Ok(None)
    IN  IF ~res.ok THEN res
        ELSE IF ~raw.filesize.some /\ ~raw.tbr.some THEN Err(MissingField("tbr"))
        ELSE Ok([id |-> raw.format_id,
                 extension |-> raw.ext,
                 resolution |-> IF raw.width.some /\ raw.height.some
                                THEN Some(res.val) ELSE None,
                 file_size |-> IF raw.filesize.some
                               THEN FileSizeNew(raw.filesize.val)
                               ELSE FileSizeNew(DerivedFileSize(dur, raw.tbr.val)),
                 file_encoding |-> FileEncodingFrom(raw)])

(***************************************************************************)
(* Specification SpecFileFormat: one element of `formats` is deserialized  *)
(* into a RawFileFormat and handed to FileFormat::try_new.                 *)
(***************************************************************************)
TenMB == F(10, 20)
TwelveMB == F(12, 20)

JsonFormats ==
    [format_id : {JStr("f1"), JAbsent},
     ext : {JStr("mp4"), JNum(F(4, 0))},
     filesize : {JAbsent, JNum(TenMB), JNum(F(1048575, 0))},
     acodec : {JAbsent, JStr("aac"), JStr("none")},
     vcodec : {JAbsent, JStr("vp9"), JStr("none")},
     height : {JAbsent, JNum(F(1080, 0)), JNum(F(720, 0)), JNum(F(9, 0))},
     width : {JAbsent, JNum(F(1920, 0)), JNum(F(1280, 0)), JNum(F(7, 0)),
              JNum(F(70000, 0))},
     tbr : {JAbsent, JNull, JNum(F(800, 0))}]

\* 0 s, 10 s and half a second
Durations == {F(0, 0), F(10, 0), F(1, -1)}

InitFileFormat ==
    /\ pc = "json"
    /\ format \in JsonFormats
    /\ duration \in Durations
    /\ raw_file_format = Idle /\ file_format = Idle
    /\ size_in_bytes = Idle /\ sizes = Idle /\ ordering = Idle
    /\ dims = Idle /\ resolution = Idle
    /\ payload = Idle /\ file_details = Idle /\ best_formats = Idle

DeserializeRaw ==
    /\ pc = "json"
    /\ raw_file_format' = FromValue(format)
    /\ pc' = "raw"
    /\ UNCHANGED <<size_in_bytes, sizes, ordering, dims, resolution, format, duration,
                   file_format, payload, file_details, best_formats>>

Normalize ==
    /\ pc = "raw"
    /\ raw_file_format.ok
    /\ file_format' = FileFormatTryNew(raw_file_format.val, duration)
    /\ pc' = "normalized"
    /\ UNCHANGED <<size_in_bytes, sizes, ordering, dims, resolution, format, duration,
                   raw_file_format, payload, file_details, best_formats>>

NextFileFormat == DeserializeRaw \/ Normalize

SpecFileFormat == InitFileFormat /\ [][NextFileFormat]_vars

NoDims == format.width = JAbsent /\ format.height = JAbsent
FullHD == format.width = JNum(F(1920, 0)) /\ format.height = JNum(F(1080, 0))

\* C8 (as claimed): with an omitted codec, (acodec omitted, vcodec "vp9",
\* 1920 x 1080) classifies as VideoOnly, (acodec "aac", vcodec omitted, no
\* dimensions) as AudioOnly, and (both omitted, no dimensions) as Unknown.
C8_OmittedCodecAsClaimed ==
    (pc = "normalized" /\ file_format.ok) =>
        /\ (format.acodec = JAbsent /\ format.vcodec = JStr("vp9") /\ FullHD)
               => file_format.val.file_encoding = "VideoOnly"
        /\ (format.acodec = JStr("aac") /\ format.vcodec = JAbsent /\ NoDims)
               => file_format.val.file_encoding = "AudioOnly"
        /\ (format.acodec = JAbsent /\ format.vcodec = JAbsent /\ NoDims)
               => file_format.val.file_encoding = "Unknown"

\* C8 (amended): an omitted codec is the string "unknown", which is not the
\* absence marker "none": (acodec omitted, vcodec "vp9", 1920 x 1080)
\* classifies as VideoAndAudio, (acodec "aac", vcodec omitted, no dimensions)
\* as Unknown, and (both omitted, no dimensions) as Unknown.
C8_OmittedCodecIsNotNone ==
    (pc = "normalized" /\ file_format.ok) =>
        /\ (format.acodec = JAbsent /\ format.vcodec = JStr("vp9") /\ FullHD)
               => file_format.val.file_encoding = "VideoAndAudio"
        /\ (format.acodec = JStr("aac") /\ format.vcodec = JAbsent /\ NoDims)
               => file_format.val.file_encoding = "Unknown"
        /\ (format.acodec = JAbsent /\ format.vcodec = JAbsent /\ NoDims)
               => file_format.val.file_encoding = "Unknown"

\* The element (acodec omitted, vcodec "vp9", 1920 x 1080) has been normalized.
C8_Witness ==
    /\ pc = "normalized" /\ file_format.ok
    /\ format.acodec = JAbsent /\ format.vcodec = JStr("vp9") /\ FullHD
    /\ raw_file_format.val.acodec = "unknown"
    /\ file_format.val.file_encoding = "VideoAndAudio"

\* The resolution step of try_new fails: both dimensions are there and
\* neither is a tier.
ResolutionStepFails ==
    LET raw == raw_file_format.val
    IN  /\ raw.width.some /\ raw.height.some
        /\ \A t \in TierValues : raw.width.val # t /\ raw.height.val # t

\* The part of C9 on where the size comes from: `filesize` when present,
\* otherwise duration x tbr x 125 bytes; MissingField("tbr") exactly when
\* both are absent and the resolution step did not fail first.
C9_SizeSource ==
    LET raw == raw_file_format.val
    IN  /\ (file_format.ok /\ raw.filesize.some)
               => file_format.val.file_size = FileSizeNew(raw.filesize.val)
        /\ (file_format.ok /\ ~raw.filesize.some)
               => /\ raw.tbr.some
                  /\ file_format.val.file_size =
                         FileSizeNew(F(duration.m * raw.tbr.val.m * 125,
                                       duration.e + raw.tbr.val.e))
        /\ (file_format = Err(MissingField("tbr")))
               = (~raw.filesize.some /\ ~raw.tbr.some /\ ~ResolutionStepFails)

TenSecondsAt800 ==
    /\ duration = F(10, 0)
    /\ format.tbr = JNum(F(800, 0))
    /\ format.filesize = JAbsent
    /\ file_format.ok

\* C9 (as claimed): the size comes from `filesize` when present, otherwise
\* from duration x tbr x 125, MissingField("tbr") exactly when both are absent
\* (and the resolution step did not fail first); duration 10, tbr 800 and no
\* filesize give 0.96MB.
C9_DerivedSizeAsClaimed ==
    pc = "normalized" =>
        /\ C9_SizeSource
        /\ TenSecondsAt800 =>
               file_format.val.file_size = [size |-> 96, unit |-> "Megabytes"]

\* C9 (amended): as claimed, but duration 10, tbr 800 and no filesize give
\* 1,000,000 bytes, which FileSize::new scales to 976.57KB: 1,000,000 / 1024
\* = 976.5625 is at least 1 and its megabyte value is below 1.
C9_DerivedSize ==
    pc = "normalized" =>
        /\ C9_SizeSource
        /\ TenSecondsAt800 =>
               file_format.val.file_size = [size |-> 97657, unit |-> "Kilobytes"]

\* An element without filesize, with tbr 800, of a 10 s asset has been sized.
C9_Witness ==
    /\ pc = "normalized"
    /\ TenSecondsAt800
    /\ file_format.val.file_size = [size |-> 97657, unit |-> "Kilobytes"]

\* C10: in every FileFormat try_new produces, VideoAndAudio or VideoOnly
\* implies a resolution, AudioOnly implies none, and Image never occurs.
C10_CategoryResolutionCoupled ==
    (pc = "normalized" /\ file_format.ok) =>
        LET f == file_format.val
        IN  /\ f.file_encoding \in {"VideoAndAudio", "VideoOnly"} => f.resolution.some
            /\ f.file_encoding = "AudioOnly" => ~f.resolution.some
            /\ f.file_encoding # "Image"
            /\ f.file_encoding \in {"VideoAndAudio", "VideoOnly", "AudioOnly", "Unknown"}

\* A video-only element (acodec "none", vcodec "vp9", 1280 x 720) has been
\* normalized, with its resolution.
C10_Witness ==
    /\ pc = "normalized" /\ file_format.ok
    /\ raw_file_format.val.acodec = "none" /\ raw_file_format.val.vcodec = "vp9"
    /\ file_format.val.file_encoding = "VideoOnly"
    /\ file_format.val.resolution = Some("P720")

(***************************************************************************)
(* FileDetails::deserialize                                                *)
(***************************************************************************)
\* the six lookups, in the order the code makes them
TopFields == <<"title", "duration", "ext", "extractor", "extractor_key", "formats">>

\* value.get(f).and_then(as_str | as_f64 | as_array) is Some
FieldPresent(value, f) ==
    IF f = "duration" THEN value[f].t = "num"
    ELSE IF f = "formats" THEN value[f].t = "arr"
    ELSE value[f].t = "str"

\* Mutant: extractor_key is not looked up.
FirstMissingFieldSkipsKey(value) ==
    LET bad == {i \in 1..Len(TopFields) :
                   TopFields[i] # "extractor_key" /\ ~FieldPresent(value, TopFields[i])}
    IN  IF bad = {} THEN None
        ELSE Some(TopFields[CHOOSE i \in bad : \A j \in bad : i <= j])

\* the first lookup that ends in ok_or_else(..)?
FirstMissingField(value) ==
    LET bad == {i \in 1..Len(TopFields) : ~FieldPresent(value, TopFields[i])}
    IN  IF bad = {} THEN None
        ELSE Some(TopFields[CHOOSE i \in bad : \A j \in bad : i <= j])

\* the loop over json_formats, from element i on, with `formats` so far
RECURSIVE ParseFormats(_, _, _, _)
ParseFormats(json_formats, dur, i, formats) ==
    IF i > Len(json_formats) THEN Ok(formats)
    ELSE LET raw == FromValue(json_formats[i])
         IN  IF ~raw.ok THEN Err(Custom(raw.err))
             ELSE LET ff == FileFormatTryNew(raw.val, dur)
                  IN  IF ff.ok
                      THEN ParseFormats(json_formats, dur, i + 1, Append(formats, ff.val))
                      ELSE ParseFormats(json_formats, dur, i + 1, formats)

Deserialize(value) ==
    LET missing == FirstMissingField(value)
    IN  IF missing.some
        THEN Err(Custom("missing " \o missing.val \o " field"))
        ELSE LET parsed == ParseFormats(value.formats.a, value.duration.n, 1, <<>>)
             IN  IF ~parsed.ok THEN parsed
                 ELSE Ok([title |-> value.title.s,
                          duration |-> value.duration.n,
                          ext |-> value.ext.s,
                          extractor |-> value.extractor.s,
                          extractor_key |-> value.extractor_key.s,
                          formats |-> parsed.val])

(***************************************************************************)
(* The selection loop of get_file_formats (lines 389-420, which the source *)
(* keeps in a comment block after BestFormats::new()).                     *)
(***************************************************************************)
EmptyMap == [r \in {} |-> None]

BestFormatsNew ==
    [video_and_audio |-> EmptyMap, video_only |-> EmptyMap, audio_only |-> None]

\* Mutant: an entry is replaced by one that is not smaller.
EntryAndModifyOrInsertGe(map, key, fmt) ==
    IF key \in DOMAIN map
    THEN IF FileSizePartialCmp(fmt.file_size, map[key].file_size) # "Less"
         THEN [map EXCEPT ![key] = fmt]
         ELSE map
    ELSE [r \in DOMAIN map \cup {key} |-> IF r = key THEN fmt ELSE map[r]]

\* map.entry(key).and_modify(|best| if fmt.file_size > best.file_size
\*     { *best = fmt.clone() }).or_insert(fmt)
EntryAndModifyOrInsert(map, key, fmt) ==
    IF key \in DOMAIN map
    THEN IF FileSizeGt(fmt.file_size, map[key].file_size)
         THEN [map EXCEPT ![key] = fmt]
         ELSE map
    ELSE [r \in DOMAIN map \cup {key} |-> IF r = key THEN fmt ELSE map[r]]

\* one turn of the loop
SelectFormat(best, fmt) ==
    IF fmt.file_encoding = "VideoAndAudio"
    THEN IF ~fmt.resolution.some THEN best
         ELSE [best EXCEPT !.video_and_audio =
                               EntryAndModifyOrInsert(@, fmt.resolution.val, fmt)]
    ELSE IF fmt.file_encoding = "VideoOnly"
    THEN IF ~fmt.resolution.some THEN best
         ELSE [best EXCEPT !.video_only =
                               EntryAndModifyOrInsert(@, fmt.resolution.val, fmt)]
    ELSE IF fmt.file_encoding = "AudioOnly"
    THEN IF best.audio_only.some
              /\ FileSizeGt(fmt.file_size, best.audio_only.val.file_size)
         THEN [best EXCEPT !.audio_only = Some(fmt)]
         ELSE best
    ELSE best

RECURSIVE SelectLoop(_, _, _)
SelectLoop(formats, i, best) ==
    IF i > Len(formats) THEN best
    ELSE SelectLoop(formats, i + 1, SelectFormat(best, formats[i]))

SelectBest(formats) == SelectLoop(formats, 1, BestFormatsNew)

(***************************************************************************)
(* Specification Spec: a payload is parsed into a FileDetails, and the     *)
(* best formats are selected from its formats.                             *)
(***************************************************************************)
MaxFormats == 3
MaxMissing == 1

Element(acodec, vcodec, w, h, filesize, tbr) ==
    [format_id |-> JStr("f"), ext |-> JStr("mp4"), filesize |-> filesize,
     acodec |-> acodec, vcodec |-> vcodec, height |-> h, width |-> w, tbr |-> tbr]

Px(n) == JNum(F(n, 0))

\* elements of `formats`, before their format_id is set
FormatTemplates ==
    { Element(JStr("aac"), JStr("vp9"), Px(1280), Px(720), JNum(TenMB), JAbsent),
      Element(JStr("aac"), JStr("vp9"), Px(1280), Px(720), JNum(TwelveMB), JAbsent),
      Element(JStr("aac"), JStr("vp9"), Px(1280), Px(720), JAbsent, Px(800)),
      Element(JStr("aac"), JStr("vp9"), Px(1920), Px(1080), JNum(TenMB), JAbsent),
      Element(JStr("none"), JStr("vp9"), Px(1280), Px(720), JNum(TenMB), JAbsent),
      Element(JStr("none"), JStr("vp9"), Px(1280), Px(720), JNum(TwelveMB), JAbsent),
      Element(JStr("aac"), JStr("none"), JAbsent, JAbsent, JNum(TenMB), JAbsent),
      Element(JStr("aac"), JStr("none"), JAbsent, JAbsent, JNum(TwelveMB), JAbsent),
      Element(JAbsent, JAbsent, JAbsent, JAbsent, JNum(TenMB), JAbsent),
      Element(JStr("aac"), JStr("vp9"), Px(7), Px(9), JNum(TenMB), JAbsent),
      Element(JStr("aac"), JStr("none"), JAbsent, JAbsent, JAbsent, JAbsent),
      [Element(JStr("aac"), JStr("vp9"), Px(1280), Px(720), JNum(TenMB), JAbsent)
           EXCEPT !.format_id = JAbsent],
      [Element(JStr("aac"), JStr("none"), JAbsent, JAbsent, JNum(TenMB), JAbsent)
           EXCEPT !.ext = JNum(F(4, 0))] }

\* the i-th element carries the format_id "f<i>", unless it has none
WithId(e, i) ==
    IF e.format_id.t = "str" THEN [e EXCEPT !.format_id = JStr("f" \o ToString(i))]
    ELSE e

\* the list l of templates as the elements of `formats`
FormatList(l) == [i \in DOMAIN l |-> WithId(l[i], i)]

\* the elements a payload with a spoiled top-level field is given: one that
\* normalizes to a video, one that normalizes to an audio, one without format_id
FewTemplates ==
    { Element(JStr("aac"), JStr("vp9"), Px(1280), Px(720), JNum(TenMB), JAbsent),
      Element(JStr("aac"), JStr("none"), JAbsent, JAbsent, JNum(TwelveMB), JAbsent),
      [Element(JStr("aac"), JStr("vp9"), Px(1280), Px(720), JNum(TenMB), JAbsent)
           EXCEPT !.format_id = JAbsent] }

GoodPayload(fs) ==
    [title |-> JStr("clip"), duration |-> JNum(F(10, 0)), ext |-> JStr("mp4"),
     extractor |-> JStr("youtube"), extractor_key |-> JStr("Youtube"),
     formats |-> JArr(fs)]

TopFieldSet == {TopFields[i] : i \in 1..Len(TopFields)}

\* field f of a payload, removed or given a value of another type
Spoiled(f, kind) ==
    IF f = "formats"
    THEN (IF kind = "absent" THEN JNoArr ELSE [t |-> "str", a |-> <<>>])
    ELSE IF kind = "absent" THEN JAbsent
    ELSE IF f = "duration" THEN JStr("10") ELSE JNum(F(1, 0))

Spoil(p, D, kind) ==
    [f \in TopFieldSet |-> IF f \in D THEN Spoiled(f, kind) ELSE p[f]]

\* a complete top level over every list of at most MaxFormats templates
InitComplete ==
    \E n \in 0..MaxFormats :
        \E l \in [1..n -> FormatTemplates] :
            payload = GoodPayload(FormatList(l))

\* at most MaxMissing top-level fields spoiled, over the lists of FewTemplates
InitSpoiled ==
    \E n \in 0..MaxFormats :
        \E l \in [1..n -> FewTemplates] :
            \E D \in {X \in SUBSET TopFieldSet : X # {} /\ Cardinality(X) <= MaxMissing} :
                \E kind \in {"absent", "wrong_type"} :
                    payload = Spoil(GoodPayload(FormatList(l)), D, kind)

Init ==
    /\ pc = "payload"
    /\ (InitComplete \/ InitSpoiled)
    /\ file_details = Idle /\ best_formats = Idle
    /\ size_in_bytes = Idle /\ sizes = Idle /\ ordering = Idle
    /\ dims = Idle /\ resolution = Idle
    /\ format = Idle /\ duration = Idle /\ raw_file_format = Idle /\ file_format = Idle

\* serde_json::from_value::<FileDetails>(json)
Parse ==
    /\ pc = "payload"
    /\ file_details' = Deserialize(payload)
    /\ pc' = "parsed"
    /\ UNCHANGED <<size_in_bytes, sizes, ordering, dims, resolution, format, duration,
                   raw_file_format, file_format, payload, best_formats>>

\* BestFormats::new() and the loop over file_details.formats; an Err was
\* unwrapped before and ended the program
Select ==
    /\ pc = "parsed"
    /\ file_details.ok
    /\ best_formats' = SelectBest(file_details.val.formats)
    /\ pc' = "selected"
    /\ UNCHANGED <<size_in_bytes, sizes, ordering, dims, resolution, format, duration,
                   raw_file_format, file_format, payload, file_details>>

Next == Parse \/ Select

Spec == Init /\ [][Next]_vars

\* the six top-level fields are present with the right type
TopLevelRight == \A f \in TopFieldSet : FieldPresent(payload, f)

\* element e normalizes: it deserializes into a RawFileFormat that try_new accepts
Normalizes(e, dur) ==
    /\ FromValue(e).ok
    /\ FileFormatTryNew(FromValue(e).val, dur).ok

\* the normalized elements of js from element i on, in their order
RECURSIVE NormalizedFrom(_, _, _)
NormalizedFrom(js, dur, i) ==
    IF i > Len(js) THEN <<>>
    ELSE IF Normalizes(js[i], dur)
    THEN <<FileFormatTryNew(FromValue(js[i]).val, dur).val>> \o NormalizedFrom(js, dur, i + 1)
    ELSE NormalizedFrom(js, dur, i + 1)

\* C1 (as claimed): with the six top-level fields right, the parse succeeds
\* whatever the elements of `formats` hold (a missing format_id or ext, a field
\* of the wrong type, an unresolvable width/height, neither filesize nor tbr),
\* and `formats` is exactly the sequence of the elements that normalize, in
\* their original order.
C1_VariantNeverAborts ==
    (pc # "payload" /\ TopLevelRight) =>
        /\ file_details.ok
        /\ file_details.val.formats = NormalizedFrom(payload.formats.a, payload.duration.n, 1)

\* C2: a payload that lacks one of the six required top-level fields yields an
\* error that names a missing field (the lacking one, when the others are
\* there) and no FileDetails, whatever its variants; nothing is selected.
C2_MissingTopLevelFieldFails ==
    pc # "payload" =>
        \A f \in TopFieldSet :
            payload[f].t = "absent" =>
                /\ ~file_details.ok
                /\ pc # "selected"
                /\ \E g \in TopFieldSet :
                       /\ ~FieldPresent(payload, g)
                       /\ file_details.err = Custom("missing " \o g \o " field")
                /\ (\A g \in TopFieldSet \ {f} : FieldPresent(payload, g))
                       => file_details.err = Custom("missing " \o f \o " field")

\* A payload with two valid variants and no extractor_key has been parsed.
C2_Witness ==
    /\ pc = "parsed"
    /\ payload.extractor_key = JAbsent
    /\ payload.formats.t = "arr"
    /\ Len(payload.formats.a) >= 2
    /\ \A i \in 1..Len(payload.formats.a) : Normalizes(payload.formats.a[i], payload.duration.n)
    /\ file_details = Err(Custom("missing extractor_key field"))

\* a is smaller than b in the unit-bucket-first order
Smaller(a, b) ==
    \/ UnitRank(a.unit) < UnitRank(b.unit)
    \/ (a.unit = b.unit /\ a.size < b.size)

\* the positions of the formats of a category that carry a resolution
Qualifying(fs, category) ==
    {i \in 1..Len(fs) : fs[i].file_encoding = category /\ fs[i].resolution.some}

\* map holds, for the formats of the category, one entry per resolution they
\* carry: the earliest format of largest size among those of that resolution
BestPerResolution(fs, category, map) ==
    LET q == Qualifying(fs, category)
    IN  /\ DOMAIN map = {fs[i].resolution.val : i \in q}
        /\ \A r \in DOMAIN map :
               \E i \in q :
                   /\ fs[i].resolution.val = r
                   /\ map[r] = fs[i]
                   /\ \A j \in q :
                          fs[j].resolution.val = r =>
                              /\ ~Smaller(fs[i].file_size, fs[j].file_size)
                              /\ j < i => Smaller(fs[j].file_size, fs[i].file_size)

C4_AudioOnlyBest ==
    pc = "selected" =>
        LET fs == file_details.val.formats
            audio == {i \in 1..Len(fs) : fs[i].file_encoding = "AudioOnly"}
        IN  /\ audio # {} =>
                   \E i \in audio :
                       /\ best_formats.audio_only = Some(fs[i])
                       /\ \A j \in audio :
                              /\ ~Smaller(fs[i].file_size, fs[j].file_size)
                              /\ j < i => Smaller(fs[j].file_size, fs[i].file_size)
            /\ audio = 1..Len(fs) =>
                   /\ DOMAIN best_formats.video_and_audio = {}
                   /\ DOMAIN best_formats.video_only = {}
            /\ Len(fs) = 0 => best_formats.audio_only = None

====
